---- MODULE Spec2Model ----
(***************************************************************************)
(* Class balancers of skutil/preprocessing/balance.py and power            *)
(* transformers of pynorm/preprocessing/transform.py.                      *)
(*                                                                         *)
(* A data frame is represented by its target column: a sequence of class   *)
(* labels, row position p (0-based, as in the code) holding X[p + 1].      *)
(* A ratio is a record [type, num, den]: a Python float num/den, the float *)
(* nan, or a non-float number ("int").  Ratios are kept as exact rationals *)
(* (the ones used are small dyadic fractions, on which the float products  *)
(* of the code are exact).                                                 *)
(*                                                                         *)
(* The object the caller passes to a call is kept apart from the objects   *)
(* the call creates: every call works on a heap (a sequence of objects)    *)
(* whose cell 1 is the caller's object, so that a write through a          *)
(* reference to cell 1 is a write to the caller's object.                  *)
(*                                                                         *)
(* Numbers of the transformers are exact: Real(u, m, t) stands for         *)
(* u + m * 1e-6 + t * 1e-17 with m and t small, ordered lexicographically. *)
(* log and power are not evaluated: a transformed value is the record of   *)
(* the branch taken and of its arguments.                                  *)
(***************************************************************************)
EXTENDS Integers, Sequences, FiniteSets, TLC

VARIABLES
    X,                \* target column of the frame passed to balance
    y,                \* the y argument: "A" names the target column
    ratio,            \* the ratio argument
    shuffle,          \* the shuffle argument
    kind,             \* which balancer: "over", "under", "smote"
    round,            \* 1 in the first balance call, 2 when its result is balanced again
    pc,               \* "start", "constructed" (partitioner built), "done"
    err,              \* "none" or the error raised by the call
    cts,              \* partitioner.cts: label -> count
    index,            \* partitioner.index: labels ascending by count
    needs_balancing,  \* partitioner.needs_balancing
    warned,           \* labels for which a SamplingWarning was issued
    sample_indices,   \* the row positions drawn by numpy.random.choice
    out,              \* the list returned by get_indices
    balanced,         \* labels of the rows of the returned frame
    arg,              \* the caller's object as it was when the call was made
    caller,           \* the caller's object as it is now
    self,             \* the transformer: cols_, n_jobs, as_df, lambda_, shift_
    ctor,             \* the arguments the transformer was constructed with
    op,               \* the last call made: "none", "fit", "transform", ...
    terr,             \* "none" or the error raised by the last call
    result,           \* what the last call computed
    last_fit          \* the maps written by the most recent successful fit

vars == <<X, y, ratio, shuffle, kind, round, pc, err, cts, index,
          needs_balancing, warned, sample_indices, out, balanced,
          arg, caller, self, ctor, op, terr, result, last_fit>>

----------------------------------------------------------------------------
(* Bounds of the model *)

MaxRows == 5
MaxShuffleRows == 3
MaxTRows == 2
MaxVec == 2

(* BalancerMixin._max_classes *)
_max_classes == 20

----------------------------------------------------------------------------
(* Sequence helpers *)

Range(s) == {s[i] : i \in DOMAIN s}

RemoveAt(s, i) == SubSeq(s, 1, i - 1) \o SubSeq(s, i + 1, Len(s))

Count(s, v) == Cardinality({i \in DOMAIN s : s[i] = v})

SameBag(s, t) == \A v \in Range(s) \cup Range(t) : Count(s, v) = Count(t, v)

IsSorted(s) == \A i \in 1..(Len(s) - 1) : s[i] <= s[i + 1]

MinOf(S) == CHOOSE m \in S : \A n \in S : m <= n
MaxOf(S) == CHOOSE m \in S : \A n \in S : n <= m

(* np.arange(length).tolist() *)
arange(length) == [i \in 1..length |-> i - 1]

(* sorted(list) *)
RECURSIVE sorted(_)
sorted(s) ==
    IF s = <<>> THEN <<>>
    ELSE LET i == CHOOSE k \in DOMAIN s : \A j \in DOMAIN s : s[k] <= s[j]
         IN <<s[i]>> \o sorted(RemoveAt(s, i))

(* np.random.permutation(list): every rearrangement is a possible outcome *)
RECURSIVE permutation(_)
permutation(s) ==
    IF s = <<>> THEN {<<>>}
    ELSE UNION {{<<s[i]>> \o p : p \in permutation(RemoveAt(s, i))} : i \in DOMAIN s}

(* numpy.random.choice(recs, n, replace): the drawn positions, kept in     *)
(* ascending order (the callers only sort or permute them afterwards).     *)
RECURSIVE choice(_, _, _)
choice(recs, n, replace) ==
    IF n = 0 THEN {<<>>}
    ELSE UNION {{<<x>> \o s :
                   s \in choice(IF replace THEN {r \in recs : r >= x}
                                           ELSE {r \in recs : r > x},
                                n - 1, replace)} : x \in recs}

----------------------------------------------------------------------------
(* Validation: _validate_ratio, _validate_target, _validate_num_classes,   *)
(* _validate_x_y_ratio                                                     *)

(* Python comparisons on a ratio; every comparison with nan is False *)
RatioLe0(r) == r.type # "nan" /\ r.num <= 0
RatioGt1(r) == r.type # "nan" /\ r.num > r.den
IsFloat(r) == r.type \in {"float", "nan"}

(* a / b <= ratio in place of a / b < ratio *)
QuotLeRatio(a, b, r) == r.type # "nan" /\ a * r.den <= r.num * b

(* a / b < ratio   and   a / b >= ratio   for counts a, b *)
QuotLtRatio(a, b, r) == r.type # "nan" /\ a * r.den < r.num * b
QuotGeRatio(a, b, r) == r.type # "nan" /\ a * r.den >= r.num * b

(* TRUE iff _validate_ratio returns (does not raise ValueError) *)
_validate_ratio(r) == ~(~IsFloat(r) \/ RatioLe0(r) \/ RatioGt1(r))

(* TRUE iff _validate_target returns: y is a non-empty string *)
_validate_target(yn) == ~(yn = "")

(* the columns of the frame *)
Columns == {"A"}

(* X[y].value_counts(): label -> number of rows *)
value_counts(col) == [l \in Range(col) |-> Count(col, l)]

(* the class labels of the small frames *)
Labels == {1, 2, 3}

(* Order in which equal counts come out of value_counts().sort_values():   *)
(* not fixed by the code; tb ranks the labels of Labels, the others rank   *)
(* by label.                                                               *)
TieBreaks == {f \in [Labels -> Labels] : \A a, b \in Labels : a # b => f[a] # f[b]}

TieRank(tb, l) == IF l \in DOMAIN tb THEN tb[l] ELSE l

(* Series.sort_values(ascending=True).index *)
sort_values(c, tb) ==
    LET before(a, b) == c[a] < c[b] \/ (c[a] = c[b] /\ TieRank(tb, a) < TieRank(tb, b))
        pos(l) == 1 + Cardinality({m \in DOMAIN c : before(m, l)})
    IN [p \in 1..Cardinality(DOMAIN c) |-> CHOOSE l \in DOMAIN c : pos(l) = p]

(* the class limit tested with >= instead of > *)
_validate_num_classes_ge(c) ==
    LET mc == _max_classes
        n_classes == Cardinality(DOMAIN c)
    IN IF n_classes >= mc THEN "too_many_classes"
       ELSE IF n_classes < 2 THEN "too_few_classes"
       ELSE "none"

(* "none" when _validate_num_classes returns, else the error it raises *)
_validate_num_classes(c) ==
    LET mc == _max_classes
        n_classes == Cardinality(DOMAIN c)
    IN IF n_classes > mc THEN "too_many_classes"
       ELSE IF n_classes < 2 THEN "too_few_classes"
       ELSE "none"

NoCts == <<>>
NoIndex == <<>>

(* _validate_x_y_ratio(X, y, ratio) with the tie order tb *)
_validate_x_y_ratio(col, yn, r, tb) ==
    LET failed(e) == [err |-> e, cts |-> NoCts, index |-> NoIndex,
                      needs_balancing |-> FALSE]
    IN IF ~_validate_ratio(r) THEN failed("invalid_ratio")
       ELSE IF ~_validate_target(yn) THEN failed("invalid_target")
       ELSE IF yn \notin Columns THEN failed("KeyError")
       ELSE LET c == value_counts(col)
                idx == sort_values(c, tb)
                e == _validate_num_classes(c)
            IN IF e # "none" THEN failed(e)
               ELSE [err |-> "none", cts |-> c, index |-> idx,
                     needs_balancing |-> QuotLtRatio(c[idx[1]], c[idx[Len(idx)]], r)]

----------------------------------------------------------------------------
(* utils.validate_is_pd(X, cols, warn=False): the names a call may bind.   *)
(* For a DataFrame X the call returns a copy of X (cases 2 and 3).         *)
validate_is_pd_params == {"X", "cols", "warn"}

(* "none" when the call validate_is_pd(X, None, **kw) returns the copy,    *)
(* "TypeError" when kw names a parameter the function does not have        *)
validate_is_pd(kw) == IF kw \subseteq validate_is_pd_params THEN "none" ELSE "TypeError"

----------------------------------------------------------------------------
(* Partitioners *)

(* all_indices[target_col == label] *)
recs_of(col, label) == {p \in 0..(Len(col) - 1) : col[p + 1] = label}

(* int(q * c) for a ratio q > 0 *)
IntMul(r, c) == (r.num * c) \div r.den

(* int((1 / q) * c) for a ratio q > 0 *)
IntDiv(r, c) == (r.den * c) \div r.num

(* _default_indices(length, shuffle) *)
_default_indices(length, sh) ==
    IF ~sh THEN {arange(length)} ELSE permutation(arange(length))

(* n_required taken from the least populous class instead of the majority *)
over_n_required_least(c, idx, r) ==
    LET m == IntMul(r, c[idx[1]])
    IN IF m > 1 THEN m ELSE 1

(* n_required rounded up instead of truncated *)
over_n_required_ceil(c, idx, r) ==
    LET majority == idx[Len(idx)]
        m == (r.num * c[majority] + r.den - 1) \div r.den
    IN IF m > 1 THEN m ELSE 1

(* n_required of the oversampling partitioner *)
over_n_required(c, idx, r) ==
    LET majority == idx[Len(idx)]
        m == IntMul(r, c[majority])
    IN IF m > 1 THEN m ELSE 1

(* The for-loop of _OversamplingBalancePartitioner._get_sample_indices     *)
(* from position k of self.index on: the possible sample_indices lists.    *)
RECURSIVE over_loop(_, _, _, _, _)
over_loop(col, c, idx, r, k) ==
    LET majority == idx[Len(idx)]
        minority == idx[k]
        min_ct == c[minority]
        n_samples == over_n_required(c, idx, r) - min_ct
    IN IF minority = majority THEN {<<>>}
       ELSE IF QuotGeRatio(min_ct, c[majority], r) THEN over_loop(col, c, idx, r, k + 1)
       ELSE IF n_samples <= 0 THEN over_loop(col, c, idx, r, k + 1)
       ELSE {idcs \o rest : idcs \in choice(recs_of(col, minority), n_samples, TRUE),
                            rest \in over_loop(col, c, idx, r, k + 1)}

(* the warning test written as min_ct < 1 *)
over_warned_never(c, idx) ==
    {idx[k] : k \in {j \in 1..(Len(idx) - 1) : c[idx[j]] < 1}}

(* the classes the loop warns about: those with min_ct == 1 it visits *)
over_warned(c, idx) ==
    {idx[k] : k \in {j \in 1..(Len(idx) - 1) : c[idx[j]] = 1}}

(* the unshuffled list returned as built, without sorting *)
arrange_unsorted(all, sh) == IF ~sh THEN {all} ELSE permutation(all)

(* the returned list, given the draws: sorted, or any permutation *)
arrange(all, sh) == IF ~sh THEN {sorted(all)} ELSE permutation(all)

(* _OversamplingBalancePartitioner._get_sample_indices(shuffle):           *)
(* the possible results [out, sample_indices, warned]                     *)
over_get_sample_indices(col, c, idx, nb, r, sh) ==
    IF ~nb
    THEN {[out |-> o, sample_indices |-> <<>>, warned |-> {}] :
             o \in _default_indices(Len(col), sh)}
    ELSE UNION {{[out |-> o, sample_indices |-> s, warned |-> over_warned(c, idx)] :
                    o \in arrange(arange(Len(col)) \o s, sh)} :
                s \in over_loop(col, c, idx, r, 1)}

(* one row fewer than n_required is drawn *)
under_n_required_less(c, idx, r) ==
    LET next_most == idx[Len(idx) - 1]
    IN IntDiv(r, c[next_most]) - 1

(* n_required as ratio * count instead of (1 / ratio) * count *)
under_n_required_mul(c, idx, r) ==
    LET next_most == idx[Len(idx) - 1]
    IN IntMul(r, c[next_most])

(* n_required of the undersampling partitioner *)
under_n_required(c, idx, r) ==
    LET next_most == idx[Len(idx) - 1]
    IN IntDiv(r, c[next_most])

(* the drawn rows appended to all rows instead of the minority rows *)
under_kept_all(col, majority, idcs) == arange(Len(col)) \o idcs

(* the rows kept by the undersampling partitioner, given the draw idcs *)
under_kept(col, majority, idcs) ==
    LET minorities == SelectSeq(arange(Len(col)), LAMBDA p : col[p + 1] # majority)
    IN minorities \o idcs

(* the guard with a strict comparison: a majority of exactly n_required rows is drawn from *)
under_no_draw_strict(c, majority, n_required) == c[majority] < n_required

(* the guard before the draw: the majority has no more than n_required rows *)
under_no_draw(c, majority, n_required) == c[majority] <= n_required

(* _UndersamplingBalancePartitioner._get_sample_indices(shuffle) *)
under_get_sample_indices(col, c, idx, nb, r, sh) ==
    IF ~nb
    THEN {[out |-> o, sample_indices |-> <<>>, warned |-> {}] :
             o \in _default_indices(Len(col), sh)}
    ELSE LET majority == idx[Len(idx)]
             n_required == under_n_required(c, idx, r)
         IN IF under_no_draw(c, majority, n_required)
            THEN {[out |-> sorted(arange(Len(col))), sample_indices |-> <<>>,
                   warned |-> {}]}
            ELSE UNION {{[out |-> o, sample_indices |-> idcs, warned |-> {}] :
                            o \in arrange(under_kept(col, majority, idcs), sh)} :
                        idcs \in choice(recs_of(col, majority), n_required, FALSE)}

(* X.iloc[indices]: the labels of the selected rows *)
iloc(col, indices) == [i \in 1..Len(indices) |-> col[indices[i] + 1]]

----------------------------------------------------------------------------
(* SMOTE *)

(* SMOTEClassBalancer: default k of the nearest-neighbours model *)
k_neighbors == 3

(* n copies of label l: the labels of the synthetic rows of one class *)
syn_frame(l, n) == [i \in 1..n |-> l]

(* The for-loop of SMOTEClassBalancer.balance from position k of index on: *)
(* [err, syn], syn the labels of the synthetic rows appended to X.         *)
(* NearestNeighbors.kneighbors() needs more fitted points than neighbours. *)
RECURSIVE smote_loop(_, _, _, _)
smote_loop(c, idx, r, k) ==
    LET majority == idx[Len(idx)]
        minority == idx[k]
        min_ct == c[minority]
        n_samples == over_n_required(c, idx, r) - min_ct
        rest == smote_loop(c, idx, r, k + 1)
    IN IF minority = majority THEN [err |-> "none", syn |-> <<>>]
       ELSE IF min_ct = 1 THEN [err |-> "singleton", syn |-> <<>>]
       ELSE IF QuotGeRatio(min_ct, c[majority], r) THEN rest
       ELSE IF n_samples <= 0 THEN rest
       ELSE IF n_samples <= k_neighbors THEN [err |-> "neighbors", syn |-> <<>>]
       ELSE IF rest.err # "none" THEN rest
       ELSE [err |-> "none", syn |-> syn_frame(minority, n_samples) \o rest.syn]

(* shuffle_dataframe(X): the rows of X in a random order *)
shuffle_dataframe(rows) == permutation(rows)

(* SMOTEClassBalancer.balance(X): the possible results.  out holds, for    *)
(* each returned row, its position in X, or -1 for a synthetic row.        *)
smote_balance(col, yn, r, sh, tb) ==
    LET failed(e) == {[err |-> e, cts |-> NoCts, index |-> NoIndex,
                       needs_balancing |-> FALSE, out |-> <<>>, balanced |-> <<>>]}
        e0 == validate_is_pd({"X", "cols", "assert_all_finite"})
        v == _validate_x_y_ratio(col, yn, r, tb)
        done(rows) == {[err |-> "none", cts |-> v.cts, index |-> v.index,
                        needs_balancing |-> v.needs_balancing,
                        out |-> [i \in DOMAIN o |-> o[i].pos],
                        balanced |-> [i \in DOMAIN o |-> o[i].label]] :
                          o \in IF sh THEN shuffle_dataframe(rows) ELSE {rows}}
        original == [i \in 1..Len(col) |-> [pos |-> i - 1, label |-> col[i]]]
    IN IF e0 # "none" THEN failed(e0)
       ELSE IF v.err # "none" THEN failed(v.err)
       ELSE IF ~v.needs_balancing THEN done(original)
       ELSE LET l == smote_loop(v.cts, v.index, r, 1)
            IN IF l.err # "none" THEN failed(l.err)
               ELSE done(original \o [i \in 1..Len(l.syn) |->
                                         [pos |-> -1, label |-> l.syn[i]]])

----------------------------------------------------------------------------
(* Objects and references *)

(* DataFrame.copy(), numpy.array(y): a new object with the content of the  *)
(* object r refers to; the heap after the call and the reference returned  *)
df_copy_same(h, r) == [heap |-> h, ref |-> r]
df_copy(h, r) == [heap |-> Append(h, h[r]), ref |-> Len(h) + 1]

(* numpy.asarray(data) on an ndarray: the array itself, no new object *)
asarray(h, r) == [heap |-> h, ref |-> r]

----------------------------------------------------------------------------
(* Numbers of the transformers *)

Real(u, m, t) == [u |-> u, m |-> m, t |-> t]

R0 == Real(0, 0, 0)
R1 == Real(1, 0, 0)
R2 == Real(2, 0, 0)

Lt(a, b) ==
    \/ a.u < b.u
    \/ a.u = b.u /\ a.m < b.m
    \/ a.u = b.u /\ a.m = b.m /\ a.t < b.t
Le(a, b) == a = b \/ Lt(a, b)
Plus(a, b) == Real(a.u + b.u, a.m + b.m, a.t + b.t)
Neg(a) == Real(0 - a.u, 0 - a.m, 0 - a.t)
Minus(a, b) == Plus(a, Neg(b))
np_abs(a) == IF Lt(a, R0) THEN Neg(a) ELSE a

(* the least element of a non-empty sequence of numbers *)
np_min(s) == CHOOSE v \in Range(s) : \A w \in Range(s) : Le(v, w)

(* ZERO = 1e-16 *)
ZERO == Real(0, 0, 10)

(* the literal 1e-6 of BoxCoxTransformer.fit and .transform *)
LowValue == Real(0, 1, 0)

(* _eqls(lam, v): np.abs(lam) <= v *)
_eqls_strict(lam, v) == Lt(np_abs(lam), v)
_eqls(lam, v) == Le(np_abs(lam), v)

(* _transform_y(y, lam): per value, log(x) when lam is within ZERO of 0,   *)
(* (x^lam - 1) / lam otherwise; den is the divisor of the branch           *)
_transform_y(yv, lam) ==
    [i \in 1..Len(yv) |->
        IF ~_eqls(lam, ZERO)
        THEN [f |-> "power", x |-> yv[i], lam |-> lam, den |-> lam]
        ELSE [f |-> "log", x |-> yv[i], lam |-> lam, den |-> R1]]

(* the test `lam == 2.0` of _yj_trans_single_x *)
lam_is_two_eqls(lam) == _eqls(Minus(lam, R2), ZERO)
lam_is_two(lam) == lam = R2

(* _yj_trans_single_x(x, lam) *)
_yj_trans_single_x(x, lam) ==
    IF Le(R0, x)
    THEN IF ~_eqls(lam, ZERO)
         THEN [f |-> "power_pos", x |-> x, lam |-> lam, den |-> lam]
         ELSE [f |-> "log_pos", x |-> x, lam |-> lam, den |-> R1]
    ELSE IF ~lam_is_two(lam)
         THEN [f |-> "power_neg", x |-> x, lam |-> lam, den |-> Minus(R2, lam)]
         ELSE [f |-> "log_neg", x |-> x, lam |-> lam, den |-> R1]

(* _yj_transform_y(y, lam) *)
_yj_transform_y(yv, lam) == [i \in 1..Len(yv) |-> _yj_trans_single_x(yv[i], lam)]

----------------------------------------------------------------------------
(* Power transformers: BoxCoxTransformer, YeoJohnsonTransformer *)

(* A frame passed to a transformer: column name -> the column's values.    *)
(* X.columns, in order:                                                    *)
TColumns == <<"a", "b">>
X_columns == [type |-> "Index", names |-> TColumns]
X_shape0(F) == Len(F[TColumns[1]])

nan == [u |-> 0, m |-> 0, t |-> 0, nan |-> TRUE]

(* an attribute that is not set, and dict(zip(cols, values)) *)
NoDict == [set |-> FALSE, map |-> [nm \in {} |-> R0]]
dict(names, values) == [set |-> TRUE, map |-> [nm \in names |-> values[nm]]]
NoResult == [format |-> "none"]

(* no fit has succeeded on the instance *)
NoFit == [lambda_ |-> NoDict, shift_ |-> NoDict]

(* check_is_fitted(self, attr): TRUE iff it returns (the attribute is set) *)
check_is_fitted_always(s, attr) == TRUE
check_is_fitted(s, attr) == IF attr = "shift_" THEN s.shift_.set ELSE s.lambda_.set

(* `not self.cols_`: True for None and for an empty list, False for a      *)
(* non-empty list; bool() of a pandas Index raises ValueError              *)
not_cols(c) ==
    IF c.type = "Index" THEN "ValueError"
    ELSE IF c.type = "None" \/ c.names = <<>> THEN "True"
    ELSE "False"

(* validate_is_pd(X) as the transformers call it, for its check only: a    *)
(* DataFrame passes                                                        *)
validate_is_pd_X(F) == "none"

(* X[names] += shift, column by column *)
iadd(F, names, shift) ==
    [nm \in DOMAIN F |->
        IF nm \in names
        THEN [i \in 1..Len(F[nm]) |-> Plus(F[nm][i], shift[nm])]
        ELSE F[nm]]

(* X[mask] with a boolean frame over the columns names: DataFrame.where,   *)
(* a new frame holding nan wherever the mask is not True                   *)
getitem_mask(h, r, names) ==
    [heap |-> Append(h, [nm \in DOMAIN h[r] |->
                            [i \in 1..Len(h[r][nm]) |->
                                IF nm \in names /\ Le(h[r][nm][i], R0)
                                THEN h[r][nm][i] ELSE nan]]),
     ref |-> Len(h) + 1]

(* frame[names] = v on the frame r refers to *)
setitem(h, r, names, v) ==
    [h EXCEPT ![r] = [nm \in DOMAIN @ |->
                         IF nm \in names
                         THEN [i \in 1..Len(@[nm]) |-> v]
                         ELSE @[nm]]]

(* np.abs(x) + 1e-6 if x <= 0.0 else 0.0 *)
fit_shift_strict(x) == IF Lt(x, R0) THEN Plus(np_abs(x), LowValue) ELSE R0
fit_shift(x) == IF Le(x, R0) THEN Plus(np_abs(x), LowValue) ELSE R0

(* BoxCoxTransformer.fit(X) on the frame in cell 1 of h; est holds the     *)
(* lambdas scipy's boxcox estimates.  The result: the transformer, the     *)
(* heap, the error, and the columns handed to the estimator.               *)
BoxCoxTransformer_fit(s, h, est) ==
    LET c == df_copy(h, 1)
        nc == not_cols(s.cols_)
        s1 == IF nc = "True" THEN [s EXCEPT !.cols_ = X_columns] ELSE s
        names == Range(s1.cols_.names)
        Xw == c.heap[c.ref]
        shift == [nm \in names |-> fit_shift(np_min(Xw[nm]))]
        Xs == iadd(Xw, names, shift)
    IN  IF validate_is_pd_X(h[1]) # "none"
        THEN [self |-> s, heap |-> h, err |-> validate_is_pd_X(h[1]),
              result |-> NoResult]
        ELSE IF nc = "ValueError"
        THEN [self |-> s, heap |-> c.heap, err |-> "ambiguous truth value",
              result |-> NoResult]
        ELSE IF X_shape0(Xw) < 2
        THEN [self |-> s1, heap |-> c.heap, err |-> "n_samples",
              result |-> NoResult]
        ELSE [self |-> [s1 EXCEPT !.shift_ = dict(names, shift),
                                  !.lambda_ = dict(names, est)],
              heap |-> [c.heap EXCEPT ![c.ref] = Xs],
              err |-> "none",
              result |-> [format |-> "estimated",
                          data |-> [nm \in names |-> Xs[nm]]]]

(* BoxCoxTransformer.transform(X) on the frame in cell 1 of h *)
BoxCoxTransformer_transform(s, h) ==
    LET c == df_copy(h, 1)
        names == Range(s.cols_.names)
        h2 == [c.heap EXCEPT ![c.ref] = iadd(@, names, s.shift_.map)]
        masked == getitem_mask(h2, c.ref, names)
        h3 == setitem(masked.heap, masked.ref, names, LowValue)
        h4 == [h3 EXCEPT ![c.ref] =
                  [nm \in DOMAIN @ |->
                      IF nm \in names
                      THEN _transform_y(@[nm], s.lambda_.map[nm])
                      ELSE @[nm]]]
    IN  IF ~check_is_fitted(s, "shift_")
        THEN [self |-> s, heap |-> h, err |-> "NotFittedError",
              result |-> NoResult]
        ELSE IF validate_is_pd_X(h[1]) # "none"
        THEN [self |-> s, heap |-> h, err |-> validate_is_pd_X(h[1]),
              result |-> NoResult]
        ELSE IF ~s.lambda_.set \/ ~s.shift_.set
        THEN [self |-> s, heap |-> c.heap, err |-> "AttributeError",
              result |-> NoResult]
        ELSE [self |-> s, heap |-> h4, err |-> "none",
              result |-> [format |-> IF s.as_df THEN "DataFrame" ELSE "matrix",
                          data |-> h4[c.ref]]]

(* YeoJohnsonTransformer.fit(X); est holds the lambdas _yj_normmax finds *)
YeoJohnsonTransformer_fit(s, h, est) ==
    LET c == df_copy(h, 1)
        nc == not_cols(s.cols_)
        s1 == IF nc = "True" THEN [s EXCEPT !.cols_ = X_columns] ELSE s
        names == Range(s1.cols_.names)
        Xw == c.heap[c.ref]
    IN  IF validate_is_pd_X(h[1]) # "none"
        THEN [self |-> s, heap |-> h, err |-> validate_is_pd_X(h[1]),
              result |-> NoResult]
        ELSE IF nc = "ValueError"
        THEN [self |-> s, heap |-> c.heap, err |-> "ambiguous truth value",
              result |-> NoResult]
        ELSE IF X_shape0(Xw) < 2
        THEN [self |-> s1, heap |-> c.heap, err |-> "n_samples",
              result |-> NoResult]
        ELSE [self |-> [s1 EXCEPT !.lambda_ = dict(names, est)],
              heap |-> c.heap,
              err |-> "none",
              result |-> [format |-> "estimated",
                          data |-> [nm \in names |-> Xw[nm]]]]

(* YeoJohnsonTransformer.transform(X) *)
YeoJohnsonTransformer_transform(s, h) ==
    LET c == df_copy(h, 1)
        names == Range(s.cols_.names)
        h2 == [c.heap EXCEPT ![c.ref] =
                  [nm \in DOMAIN @ |->
                      IF nm \in names
                      THEN _yj_transform_y(@[nm], s.lambda_.map[nm])
                      ELSE @[nm]]]
    IN  IF ~check_is_fitted(s, "lambda_")
        THEN [self |-> s, heap |-> h, err |-> "NotFittedError",
              result |-> NoResult]
        ELSE IF validate_is_pd_X(h[1]) # "none"
        THEN [self |-> s, heap |-> h, err |-> validate_is_pd_X(h[1]),
              result |-> NoResult]
        ELSE IF ~s.lambda_.set
        THEN [self |-> s, heap |-> c.heap, err |-> "AttributeError",
              result |-> NoResult]
        ELSE [self |-> s, heap |-> h2, err |-> "none",
              result |-> [format |-> IF s.as_df THEN "DataFrame" ELSE "matrix",
                          data |-> h2[c.ref]]]

----------------------------------------------------------------------------
(* The Yeo-Johnson log-likelihood *)

(* `0 == var`: the mean squared deviation of y is zero iff all elements of *)
(* y are equal (adding one shift to every element does not change it)      *)
var_is_zero_one(yv) == Len(yv) = 1
var_is_zero(yv) == \A i, j \in 1..Len(yv) : yv[i] = yv[j]

(* _yj_llf(data, lmb) on the array r refers to: the heap after the call,   *)
(* the error raised and the value returned                                 *)
_yj_llf(h, r, lmb) ==
    LET a == asarray(h, r)
        data == a.heap[a.ref]
        N == Len(data)
        yv == _yj_transform_y(data, lmb)
        min_d == np_min(data)
        shift == Plus(np_abs(min_d), R1)
        h2 == IF Lt(min_d, ZERO)
              THEN [a.heap EXCEPT ![a.ref] = [i \in 1..N |-> Plus(@[i], shift)]]
              ELSE a.heap
    IN  IF 0 = N
        THEN [heap |-> a.heap, err |-> "data is empty", ret |-> NoResult]
        ELSE IF var_is_zero(yv)
        THEN [heap |-> h2, err |-> "none", ret |-> [format |-> "nan"]]
        ELSE [heap |-> h2, err |-> "none",
              ret |-> [format |-> "llf", lmb |-> lmb, y |-> yv,
                       data |-> h2[a.ref]]]

----------------------------------------------------------------------------
(* The per-feature estimation tasks of fit: Parallel(n_jobs)(delayed(...))  *)

(* the lambda _estimate_lambda_single_y / _yj_estimate_lambda_single_y     *)
(* returns for the data it was called with: a function of that data        *)
estimate(y0) == [lam_of |-> y0]

NoTask(nm) == [nm |-> nm, phase |-> "pending", ref |-> 0, y0 |-> <<>>,
               ret |-> NoResult]

(* tasks are dispatched in the order of self.cols_, at most n_jobs at once *)
next_pending(tasks) ==
    {i \in 1..Len(tasks) :
        /\ tasks[i].phase = "pending"
        /\ \A j \in 1..(i - 1) : tasks[j].phase # "pending"}
running(tasks) == {i \in 1..Len(tasks) : tasks[i].phase = "running"}

(* the list Parallel(...)(...) returns: the results in the order the tasks *)
(* were submitted, whatever the order in which they completed              *)
Parallel_results_completed(tasks, order) ==
    [i \in 1..Len(tasks) |-> tasks[order[i]].ret]
Parallel_results(tasks, order) == [i \in 1..Len(tasks) |-> tasks[i].ret]

(* zip(self.cols_, results) as a function of the column name *)
zip(names, values) ==
    [nm \in Range(names) |->
        values[CHOOSE i \in 1..Len(names) : names[i] = nm]]

----------------------------------------------------------------------------
(* Inputs *)

(* frames of up to n rows over the labels of Labels *)
SmallFrames(n) == UNION {[1..m -> Labels] : m \in 0..n}

(* frames with k distinct labels: label 1 on 1 + e rows, 2..k on one row *)
WideFrame(k, e) == [i \in 1..(k + e) |-> IF i <= e THEN 1 ELSE i - e]
WideFrames == {WideFrame(k, e) : k \in 0..(_max_classes + 2), e \in {0, 1}}

(* frames whose three classes have distinct counts: 3/2/1 and 4/2/1 *)
SkewFrames == {<<1, 1, 1, 2, 2, 3>>, <<3, 1, 2, 1, 1, 2, 1>>}

Float(n, d) == [type |-> "float", num |-> n, den |-> d]
NaN == [type |-> "nan", num |-> 0, den |-> 1]
NonFloat(n) == [type |-> "int", num |-> n, den |-> 1]

ValidRatios == {Float(1, 4), Float(1, 2), Float(3, 4), Float(1, 1)}
Ratios == ValidRatios \cup {Float(0, 1), Float(-1, 2), Float(3, 2), NaN, NonFloat(1)}

(* y: the target column, an empty name, a column the frame does not have *)
Targets == {"A", "", "B"}

Kinds == {"over", "under", "smote"}

(* the index of a frame that is the result of a slice: out of order *)
slice_index(n) == [i \in 1..n |-> n - i]

(* rows of the frames passed to the transformers: the values of a and b *)
TRows == <<(<<Real(0 - 1, 0, 0), R1>>), (<<R0, R2>>), (<<R1, Real(0 - 2, 0, 0)>>)>>

(* frames of up to MaxTRows of these rows; the order of the rows plays no  *)
(* part in fit and transform, so the rows are taken in one order          *)
TFrames ==
    UNION {{[nm \in Range(TColumns) |->
                [i \in 1..n |-> IF nm = "a" THEN TRows[rows[i]][1]
                                             ELSE TRows[rows[i]][2]]] :
            rows \in {r \in [1..n -> DOMAIN TRows] :
                         \A i \in 1..(n - 1) : r[i] <= r[i + 1]}} :
           n \in 0..MaxTRows}

(* the lambdas an estimator may return: within ZERO of 0, and 2 *)
EstLambdas == {Real(0, 0, 5), R2}

(* the arguments of the constructors *)
Ctors == {[cols |-> c, n_jobs |-> s[1], as_df |-> s[2]] :
             c \in {[type |-> "None", names |-> <<>>],
                    [type |-> "list", names |-> <<"a">>],
                    [type |-> "list", names |-> <<"a", "b">>]},
             s \in {<<1, TRUE>>, <<2, FALSE>>}}

(* values and lambdas on which the transforms of one value are applied *)
SingleXs == {Real(0 - 1, 0, 0), R0, Real(0, 0, 5), LowValue, R1}
NearZero == {Real(0, 0, t) : t \in {0 - 11, 0 - 10, 0 - 5, 0, 5, 10, 11}}
SingleLams == NearZero \cup {Plus(R2, d) : d \in NearZero} \cup {R1, Real(0 - 1, 0, 0)}

(* data vectors of the log-likelihood *)
Vectors(vals) == UNION {[1..n -> vals] : n \in 0..MaxVec}
LlfLambdas == {R0, R1, R2}

TKinds == {"boxcox", "yeojohnson"}

(* the variables of the balancers while a transformer is exercised *)
NoBalancer ==
    /\ X = <<>>
    /\ y = ""
    /\ ratio = Float(1, 1)
    /\ shuffle = FALSE
    /\ round = 1
    /\ pc = "idle"
    /\ err = "none"
    /\ cts = NoCts
    /\ index = NoIndex
    /\ needs_balancing = FALSE
    /\ warned = {}
    /\ sample_indices = <<>>
    /\ out = <<>>
    /\ balanced = <<>>

NoTransformer == [cols_ |-> [type |-> "None", names |-> <<>>], n_jobs |-> 1,
                  as_df |-> TRUE, lambda_ |-> NoDict, shift_ |-> NoDict]

(* BoxCoxTransformer.__init__, YeoJohnsonTransformer.__init__ *)
__init__(kw) ==
    [cols_ |-> kw.cols, n_jobs |-> kw.n_jobs, as_df |-> kw.as_df,
     lambda_ |-> NoDict, shift_ |-> NoDict]

(* a transformer just constructed *)
InitTransformer ==
    /\ NoBalancer
    /\ kind \in TKinds
    /\ ctor \in Ctors
    /\ self = __init__(ctor)
    /\ arg = [nm \in Range(TColumns) |-> <<>>]
    /\ caller = arg
    /\ op = "none"
    /\ terr = "none"
    /\ result = NoResult
    /\ last_fit = NoFit

(* a data vector about to be handed to _yj_normmax *)
InitLlf ==
    /\ NoBalancer
    /\ kind = "yj_llf"
    /\ caller \in Vectors({Real(0 - 1, 0, 0), R0, Real(0, 0, 5), R1})
    /\ arg = caller
    /\ ctor = caller
    /\ self = NoTransformer
    /\ op = "none"
    /\ terr = "none"
    /\ result = NoResult
    /\ last_fit = NoFit

(* a value, or a vector of values, and a lambda to transform it with *)
InitSingle ==
    /\ NoBalancer
    /\ \/ /\ kind = "yj_single"
          /\ arg \in [x : SingleXs, lam : SingleLams]
       \/ /\ kind = "bc_single"
          /\ arg \in [y : Vectors({LowValue, R1, R2}), lam : SingleLams]
    /\ caller = arg
    /\ ctor = arg
    /\ self = NoTransformer
    /\ op = "none"
    /\ terr = "none"
    /\ result = NoResult
    /\ last_fit = NoFit

InitBalancer ==
    /\ \/ /\ X \in SmallFrames(MaxRows) \cup WideFrames \cup SkewFrames
          /\ shuffle = FALSE
       \/ /\ X \in SmallFrames(MaxShuffleRows)
          /\ shuffle = TRUE
    /\ \/ /\ y = "A"
          /\ ratio \in Ratios
       \/ /\ y \in Targets
          /\ ratio \in {Float(1, 2), Float(3, 2)}
    /\ kind \in Kinds
    /\ round = 1
    /\ pc = "start"
    /\ err = "none"
    /\ cts = NoCts
    /\ index = NoIndex
    /\ needs_balancing = FALSE
    /\ warned = {}
    /\ sample_indices = <<>>
    /\ out = <<>>
    /\ balanced = <<>>
    /\ arg = [values |-> X, index |-> slice_index(Len(X))]
    /\ caller = arg
    /\ self = NoTransformer
    /\ ctor = NoTransformer
    /\ op = "none"
    /\ terr = "none"
    /\ result = NoResult
    /\ last_fit = NoFit

TaskKinds == {"boxcox_tasks", "yeojohnson_tasks"}

(* fit has reached the estimation of the lambdas (lines 214, 353): arg is  *)
(* the frame fit was called with, caller the heap holding one array per    *)
(* column of the working copy (for Box-Cox after the shift)                *)
InitTasks ==
    /\ NoBalancer
    /\ kind \in TaskKinds
    /\ ctor \in {c \in Ctors : c.cols.names = TColumns}
    /\ arg \in {F \in TFrames : X_shape0(F) >= 2}
    /\ LET names == Range(TColumns)
           shift == [nm \in names |-> fit_shift(np_min(arg[nm]))]
           Xw == IF kind = "boxcox_tasks" THEN iadd(arg, names, shift) ELSE arg
       IN  /\ caller = [i \in 1..Len(TColumns) |-> Xw[TColumns[i]]]
           /\ self = [__init__(ctor) EXCEPT
                         !.shift_ = IF kind = "boxcox_tasks"
                                    THEN dict(names, shift) ELSE NoDict]
    /\ op = "estimating"
    /\ terr = "none"
    /\ result = [tasks |-> [i \in 1..Len(TColumns) |-> NoTask(TColumns[i])],
                 order |-> <<>>]
    /\ last_fit = NoFit

Init == InitBalancer \/ InitTransformer \/ InitLlf \/ InitSingle \/ InitTasks

----------------------------------------------------------------------------
(* Operations *)

(* the partitioner is handed on although validation raised *)
Construct_unvalidated ==
    /\ pc = "start"
    /\ kind \in {"over", "under"}
    /\ \E tb \in TieBreaks :
         LET e0 == validate_is_pd({"X", "cols"})
             v == _validate_x_y_ratio(X, y, ratio, tb)
         IN /\ err' = IF e0 # "none" THEN e0 ELSE v.err
            /\ pc' = "constructed"
            /\ cts' = v.cts
            /\ index' = v.index
            /\ needs_balancing' = v.needs_balancing
            /\ caller' = caller
    /\ UNCHANGED <<X, y, ratio, shuffle, kind, round, warned, sample_indices,
                   out, balanced, arg, self, ctor, last_fit, op, terr, result>>

(* _over_under_balance up to the construction of the partitioner:          *)
(* validate_is_pd copies X, the index is reset, the partitioner validates  *)
Construct ==
    /\ pc = "start"
    /\ kind \in {"over", "under"}
    /\ \E tb \in TieBreaks :
         LET e0 == validate_is_pd({"X", "cols"})
             v == _validate_x_y_ratio(X, y, ratio, tb)
         IN /\ err' = IF e0 # "none" THEN e0 ELSE v.err
            /\ pc' = IF err' = "none" THEN "constructed" ELSE "done"
            /\ cts' = v.cts
            /\ index' = v.index
            /\ needs_balancing' = v.needs_balancing
            /\ caller' = IF e0 # "none" THEN caller
                          ELSE LET c == df_copy(<<caller>>, 1)
                               IN  [c.heap EXCEPT ![c.ref].index = arange(Len(X))][1]
    /\ UNCHANGED <<X, y, ratio, shuffle, kind, round, warned, sample_indices,
                   out, balanced, arg, self, ctor, last_fit, op, terr, result>>

(* _over_under_balance from partitioner.get_indices(shuffle) on *)
GetIndices ==
    /\ pc = "constructed"
    /\ \E res \in IF kind = "over"
                  THEN over_get_sample_indices(X, cts, index, needs_balancing, ratio, shuffle)
                  ELSE under_get_sample_indices(X, cts, index, needs_balancing, ratio, shuffle) :
         /\ out' = res.out
         /\ sample_indices' = res.sample_indices
         /\ warned' = res.warned
         /\ balanced' = iloc(X, res.out)
    /\ pc' = "done"
    /\ UNCHANGED <<X, y, ratio, shuffle, kind, round, err, cts, index,
                   needs_balancing, arg, caller, self, ctor, last_fit, op, terr, result>>

(* SMOTEClassBalancer.balance *)
SMOTEBalance ==
    /\ pc = "start"
    /\ kind = "smote"
    /\ \E tb \in TieBreaks :
         \E res \in smote_balance(X, y, ratio, shuffle, tb) :
            /\ err' = res.err
            /\ cts' = res.cts
            /\ index' = res.index
            /\ needs_balancing' = res.needs_balancing
            /\ out' = res.out
            /\ balanced' = res.balanced
            /\ caller' = IF res.err = "TypeError" THEN caller
                          ELSE LET c == df_copy(<<caller>>, 1)
                               IN  [c.heap EXCEPT ![c.ref].index = arange(Len(X))][1]
    /\ pc' = "done"
    /\ UNCHANGED <<X, y, ratio, shuffle, kind, round, warned, sample_indices,
                   arg, self, ctor, last_fit, op, terr, result>>

(* the caller balances the frame returned by the first call a second time, *)
(* with the same balancer                                                  *)
Rebalance ==
    /\ pc = "done"
    /\ err = "none"
    /\ round = 1
    /\ shuffle => Len(balanced) <= MaxRows
    /\ X' = balanced
    /\ round' = round + 1
    /\ pc' = "start"
    /\ cts' = NoCts
    /\ index' = NoIndex
    /\ needs_balancing' = FALSE
    /\ warned' = {}
    /\ sample_indices' = <<>>
    /\ out' = <<>>
    /\ balanced' = <<>>
    /\ arg' = [values |-> balanced, index |-> arange(Len(balanced))]
    /\ caller' = arg'
    /\ UNCHANGED <<y, ratio, shuffle, kind, err, self, ctor, last_fit, op, terr, result>>

balancer_vars == <<X, y, ratio, shuffle, kind, round, pc, err, cts, index,
                   needs_balancing, warned, sample_indices, out, balanced>>

(* transformer.fit(F) for a frame F of the caller *)
BoxCoxFit ==
    /\ kind = "boxcox"
    /\ \E F \in TFrames : \E est \in [Range(TColumns) -> EstLambdas] :
         LET r == BoxCoxTransformer_fit(self, <<F>>, est)
         IN  /\ arg' = F
             /\ caller' = r.heap[1]
             /\ self' = r.self
             /\ terr' = r.err
             /\ result' = r.result
             /\ last_fit' = IF r.err = "none"
                            THEN [lambda_ |-> r.self.lambda_, shift_ |-> r.self.shift_]
                            ELSE last_fit
    /\ op' = "fit"
    /\ UNCHANGED <<balancer_vars, ctor>>

(* transformer.transform(F) for a frame F of the caller *)
BoxCoxTransform ==
    /\ kind = "boxcox"
    /\ \E F \in TFrames :
         LET r == BoxCoxTransformer_transform(self, <<F>>)
         IN  /\ arg' = F
             /\ caller' = r.heap[1]
             /\ self' = r.self
             /\ terr' = r.err
             /\ result' = r.result
    /\ op' = "transform"
    /\ UNCHANGED <<balancer_vars, ctor, last_fit>>

YeoJohnsonFit ==
    /\ kind = "yeojohnson"
    /\ \E F \in TFrames : \E est \in [Range(TColumns) -> EstLambdas] :
         LET r == YeoJohnsonTransformer_fit(self, <<F>>, est)
         IN  /\ arg' = F
             /\ caller' = r.heap[1]
             /\ self' = r.self
             /\ terr' = r.err
             /\ result' = r.result
             /\ last_fit' = IF r.err = "none"
                            THEN [lambda_ |-> r.self.lambda_, shift_ |-> r.self.shift_]
                            ELSE last_fit
    /\ op' = "fit"
    /\ UNCHANGED <<balancer_vars, ctor>>

YeoJohnsonTransform ==
    /\ kind = "yeojohnson"
    /\ \E F \in TFrames :
         LET r == YeoJohnsonTransformer_transform(self, <<F>>)
         IN  /\ arg' = F
             /\ caller' = r.heap[1]
             /\ self' = r.self
             /\ terr' = r.err
             /\ result' = r.result
    /\ op' = "transform"
    /\ UNCHANGED <<balancer_vars, ctor, last_fit>>

(* one evaluation _yj_llf(data, lmb) by the optimizer of _yj_normmax, on   *)
(* the array it holds                                                      *)
YjLlf ==
    /\ kind = "yj_llf"
    /\ \E lmb \in LlfLambdas :
         LET r == _yj_llf(<<caller>>, 1, lmb)
         IN  /\ arg' = caller
             /\ caller' = r.heap[1]
             /\ terr' = r.err
             /\ result' = r.ret
    /\ op' = "_yj_llf"
    /\ UNCHANGED <<balancer_vars, self, ctor, last_fit>>

(* _yj_trans_single_x(x, lam) *)
YjTransSingleX ==
    /\ kind = "yj_single"
    /\ op = "none"
    /\ result' = _yj_trans_single_x(arg.x, arg.lam)
    /\ op' = "_yj_trans_single_x"
    /\ UNCHANGED <<balancer_vars, arg, caller, self, ctor, last_fit, terr>>

(* _transform_y(y, lam) *)
TransformY ==
    /\ kind = "bc_single"
    /\ op = "none"
    /\ result' = [format |-> "array", data |-> _transform_y(arg.y, arg.lam)]
    /\ op' = "_transform_y"
    /\ UNCHANGED <<balancer_vars, arg, caller, self, ctor, last_fit, terr>>

(* Parallel dispatches the next task: its argument X[i].tolist() resp. its *)
(* np.array(y) is a new array holding the column                           *)
TaskDispatch ==
    /\ kind \in TaskKinds
    /\ op = "estimating"
    /\ Cardinality(running(result.tasks)) < self.n_jobs
    /\ \E i \in next_pending(result.tasks) :
         LET c == df_copy(caller, i)
         IN  /\ caller' = c.heap
             /\ result' = [result EXCEPT
                              !.tasks[i].phase = "running",
                              !.tasks[i].ref = c.ref,
                              !.tasks[i].y0 = c.heap[c.ref]]
    /\ UNCHANGED <<balancer_vars, arg, self, ctor, last_fit, op, terr>>

(* a running Yeo-Johnson task: the optimizer evaluates _yj_llf on the      *)
(* task's array                                                            *)
TaskEval ==
    /\ kind = "yeojohnson_tasks"
    /\ op = "estimating"
    /\ \E i \in running(result.tasks) : \E lmb \in LlfLambdas :
         caller' = _yj_llf(caller, result.tasks[i].ref, lmb).heap
    /\ UNCHANGED <<balancer_vars, arg, self, ctor, last_fit, op, terr, result>>

(* a running task returns its lambda *)
TaskComplete ==
    /\ kind \in TaskKinds
    /\ op = "estimating"
    /\ \E i \in running(result.tasks) :
         result' = [result EXCEPT
                       !.tasks[i].phase = "done",
                       !.tasks[i].ret = estimate(result.tasks[i].y0),
                       !.order = Append(@, i)]
    /\ UNCHANGED <<balancer_vars, arg, caller, self, ctor, last_fit, op, terr>>

(* all tasks are done: self.lambda_ = dict(zip(self.cols_, Parallel(...))) *)
TaskGather ==
    /\ kind \in TaskKinds
    /\ op = "estimating"
    /\ \A i \in 1..Len(result.tasks) : result.tasks[i].phase = "done"
    /\ self' = [self EXCEPT !.lambda_ =
                    dict(Range(self.cols_.names),
                         zip(self.cols_.names,
                             Parallel_results(result.tasks, result.order)))]
    /\ last_fit' = [lambda_ |-> self'.lambda_, shift_ |-> self'.shift_]
    /\ op' = "fit"
    /\ UNCHANGED <<balancer_vars, arg, caller, ctor, terr, result>>

Next ==
    \/ Construct \/ GetIndices \/ SMOTEBalance \/ Rebalance
    \/ BoxCoxFit \/ BoxCoxTransform \/ YeoJohnsonFit \/ YeoJohnsonTransform
    \/ YjLlf \/ YjTransSingleX \/ TransformY
    \/ TaskDispatch \/ TaskEval \/ TaskComplete \/ TaskGather

Spec == Init /\ [][Next]_vars

----------------------------------------------------------------------------
(* Vocabulary of the properties, stated on the frames themselves *)

CountIn(col, l) == Count(col, l)
ClassesOf(col) == Range(col)
MaxCount(col) == MaxOf({CountIn(col, l) : l \in ClassesOf(col)})
MinCount(col) == MinOf({CountIn(col, l) : l \in ClassesOf(col)})
Majorities(col) == {l \in ClassesOf(col) : CountIn(col, l) = MaxCount(col)}

(* count of the second-most populous class *)
NextMostCount(col) ==
    IF Cardinality(Majorities(col)) > 1 THEN MaxCount(col)
    ELSE MaxOf({CountIn(col, l) : l \in ClassesOf(col) \ Majorities(col)})

(* the ratio is a real number in (0, 1] *)
RatioInRange(r) == r.type = "float" /\ 0 < r.num /\ r.num <= r.den

(* a valid call: ratio in (0, 1], y names the target, 2..20 classes *)
ValidInput ==
    /\ RatioInRange(ratio)
    /\ y = "A"
    /\ Cardinality(ClassesOf(X)) >= 2
    /\ Cardinality(ClassesOf(X)) <= 20

(* count(least-populous) / count(most-populous) < ratio *)
Imbalanced(col, r) == MinCount(col) * r.den < r.num * MaxCount(col)

(* count / count[majority] < ratio for class l *)
Deficient(col, l, r) == CountIn(col, l) * r.den < r.num * MaxCount(col)

FloorMul(r, c) == (r.num * c) \div r.den
FloorDiv(c, r) == (c * r.den) \div r.num
CeilDiv(c, r) == ((c * r.den) + r.num - 1) \div r.num
Max2(a, b) == IF a >= b THEN a ELSE b

OverDone == pc = "done" /\ kind = "over" /\ err = "none" /\ ValidInput
UnderDone == pc = "done" /\ kind = "under" /\ err = "none" /\ ValidInput

----------------------------------------------------------------------------
(* C1: after OversamplingClassBalancer.balance with a ratio r in (0,1],    *)
(* every class present before satisfies                                    *)
(* count_after / count_after[majority] >= r within one unit of the         *)
(* minority count, or it was already compliant before; for every outcome   *)
(* of the random draws.                                                    *)
C1_OversamplingInvariant ==
    OverDone =>
        \A m \in Majorities(X) : \A l \in ClassesOf(X) :
            \/ (CountIn(balanced, l) + 1) * ratio.den >= ratio.num * CountIn(balanced, m)
            \/ ~Deficient(X, l, ratio)

(* a deficient class was topped up and sits below r only by rounding *)
C1_Witness ==
    /\ OverDone
    /\ \E l \in ClassesOf(X) :
         /\ Deficient(X, l, ratio)
         /\ CountIn(balanced, l) > CountIn(X, l)
         /\ CountIn(balanced, l) * ratio.den < ratio.num * MaxCount(balanced)

(* C2: with n_required = max(1, floor(ratio * count[majority])), after     *)
(* oversampling the majority count is unchanged, every class with          *)
(* count / count[majority] < ratio ends with exactly n_required rows and   *)
(* every other class keeps its count; every original row position appears  *)
(* at least once and every added position is a row of a topped-up class.   *)
C2_OversampleExactCounts ==
    OverDone =>
        LET n_required == Max2(1, FloorMul(ratio, MaxCount(X)))
        IN /\ \A l \in ClassesOf(X) :
                CountIn(balanced, l) = IF Deficient(X, l, ratio) THEN n_required
                                       ELSE CountIn(X, l)
           /\ \A m \in Majorities(X) : CountIn(balanced, m) = CountIn(X, m)
           /\ \A p \in 0..(Len(X) - 1) : Count(out, p) >= 1
           /\ \A p \in Range(out) : Count(out, p) > 1 => Deficient(X, X[p + 1], ratio)
           /\ \A p \in Range(sample_indices) : Deficient(X, X[p + 1], ratio)
           /\ Len(out) = Len(X) + Len(sample_indices)

(* two classes were topped up in the same call *)
C2_Witness ==
    /\ OverDone
    /\ Len(sample_indices) >= 2
    /\ Cardinality({X[p + 1] : p \in Range(sample_indices)}) = 2

(* C3: with n_required = floor(count[next_most] / ratio), when balancing   *)
(* is needed and count[majority] > n_required the output holds exactly     *)
(* n_required distinct majority positions and every non-majority position  *)
(* exactly once; otherwise every position appears exactly once.            *)
C3_UndersampleExactCounts ==
    UnderDone =>
        LET n_required == FloorDiv(NextMostCount(X), ratio)
            rows == 0..(Len(X) - 1)
        IN IF Imbalanced(X, ratio) /\ MaxCount(X) > n_required
           THEN \A m \in Majorities(X) :
                   /\ Cardinality({p \in Range(out) : X[p + 1] = m}) = n_required
                   /\ CountIn(balanced, m) = n_required
                   /\ \A p \in Range(out) : Count(out, p) = 1
                   /\ Range(out) \subseteq rows
                   /\ \A p \in rows : X[p + 1] # m => Count(out, p) = 1
           ELSE /\ Range(out) = rows
                /\ \A p \in rows : Count(out, p) = 1

(* majority rows were dropped from a frame of three classes *)
C3_Witness ==
    /\ UnderDone
    /\ Cardinality(ClassesOf(X)) = 3
    /\ MinCount(X) < NextMostCount(X)
    /\ Len(out) < Len(X)

(* C4: after UndersamplingClassBalancer.balance,                           *)
(* count_after[majority] <= max(count_before[majority],                    *)
(*                              ceil(count_before[next_most] / r)).        *)
C4_UndersamplingInvariant ==
    UnderDone =>
        \A m \in Majorities(X) :
            CountIn(balanced, m) <= Max2(CountIn(X, m), CeilDiv(NextMostCount(X), ratio))

(* the majority was cut down to a count below ceil(next_most / r) *)
C4_Witness ==
    /\ UnderDone
    /\ \E m \in Majorities(X) :
         /\ CountIn(balanced, m) < CountIn(X, m)
         /\ CountIn(balanced, m) < CeilDiv(NextMostCount(X), ratio)

(* C5: on every path of both partitioners, get_indices(shuffle=False)      *)
(* returns positions sorted ascending, get_indices(shuffle=True) returns a *)
(* permutation of the multiset the unshuffled path returns for the same    *)
(* draws, and every position lies in [0, n_original_rows).                 *)
C5_Rows ==
    LET all_indices == arange(Len(X))
    IN IF kind = "over" THEN all_indices \o sample_indices
       ELSE IF sample_indices = <<>> THEN all_indices
       ELSE SelectSeq(all_indices, LAMBDA p : X[p + 1] \notin Majorities(X))
                \o sample_indices

C5_IndexSetInvariant ==
    (pc = "done" /\ kind \in {"over", "under"} /\ err = "none") =>
        /\ ~shuffle => IsSorted(out)
        /\ SameBag(out, C5_Rows)
        /\ \A i \in DOMAIN out : out[i] \in 0..(Len(X) - 1)

(* a shuffled result of a call that drew rows comes back out of order *)
C5_Witness ==
    /\ pc = "done" /\ kind \in {"over", "under"} /\ err = "none"
    /\ shuffle
    /\ sample_indices # <<>>
    /\ ~IsSorted(out)

(* C6: for the oversampling, undersampling and SMOTE balancers, an input   *)
(* that already satisfies the ratio is returned with the same rows         *)
(* (positions exactly [0, n), permuted when shuffling), and balancing the  *)
(* result of a balance call a second time changes no class count.          *)
C6_IdentityPath ==
    /\ (pc = "done" /\ ValidInput /\ ~Imbalanced(X, ratio)) =>
           /\ err = "none"
           /\ SameBag(out, arange(Len(X)))
           /\ SameBag(balanced, X)
    /\ (pc = "done" /\ ValidInput /\ round = 2) =>
           /\ err = "none"
           /\ \A l \in ClassesOf(X) \cup ClassesOf(balanced) :
                  CountIn(balanced, l) = CountIn(X, l)

(* the part of C6 that concerns the two partitioner-based balancers *)
C6_IdentityPathOverUnder == kind \in {"over", "under"} => C6_IdentityPath

(* C7: for every valid input in which some class has exactly one row,      *)
(* SMOTEClassBalancer.balance raises a fatal error while                   *)
(* OversamplingClassBalancer.balance succeeds and records a                *)
(* SamplingWarning for that class.                                         *)
Singletons(col) == {l \in ClassesOf(col) : CountIn(col, l) = 1}

C7_SingletonAsymmetry ==
    (pc = "done" /\ ValidInput /\ Singletons(X) # {}) =>
        /\ kind = "smote" => err # "none"
        /\ kind = "over" => err = "none" /\ Singletons(X) \subseteq warned

(* C7 as amended: the same, for inputs that need balancing                 *)
(* (count(least-populous) / count(most-populous) < ratio).                 *)
C7_SingletonAsymmetryImbalanced ==
    (pc = "done" /\ ValidInput /\ Singletons(X) # {} /\ Imbalanced(X, ratio)) =>
        /\ kind = "smote" => err # "none"
        /\ kind = "over" => err = "none" /\ Singletons(X) \subseteq warned

(* oversampling a frame with a one-row class succeeded with a warning *)
C7_Witness ==
    /\ pc = "done" /\ kind = "over" /\ ValidInput /\ err = "none"
    /\ Singletons(X) # {}
    /\ Imbalanced(X, ratio)
    /\ warned = Singletons(X)
    /\ Len(balanced) > Len(X)

(* C8: validation fails with an invalid-parameter error for every ratio    *)
(* that is not a real number in (0.0, 1.0], and accepts every float ratio  *)
(* with 0 < ratio <= 1, including 1.0.                                     *)
C8_RatioValidation ==
    (pc # "start" /\ kind \in {"over", "under"}) =>
        (err = "invalid_ratio" <=> ~RatioInRange(ratio))

(* C9: validation fails with a too-many-classes error iff the number of    *)
(* distinct labels exceeds 20, with a too-few-classes error iff it is      *)
(* fewer than 2, and succeeds for every count in 2..20.                    *)
C9_ClassCountValidation ==
    (/\ pc # "start" /\ kind \in {"over", "under"}
     /\ err \notin {"invalid_ratio", "invalid_target", "KeyError"}) =>
        LET n == Cardinality(ClassesOf(X))
        IN /\ err = "too_many_classes" <=> n > 20
           /\ err = "too_few_classes" <=> n < 2
           /\ (2 <= n /\ n <= 20) => err = "none"

(* a frame of 20 classes was accepted *)
C9_Witness ==
    /\ pc = "constructed"
    /\ Cardinality(ClassesOf(X)) = 20
    /\ err = "none"

(* C10: validation returns needs_balancing = true iff                      *)
(* count(least-populous) / count(most-populous) < ratio (strict), and the  *)
(* labels ordered ascending by count: the last a most-populous one, the    *)
(* first a least-populous one.                                             *)
C10_NeedsBalancingDecision ==
    (/\ pc \in {"constructed", "done"} /\ kind \in {"over", "under"}
     /\ err = "none" /\ ratio.type = "float") =>
        /\ needs_balancing = Imbalanced(X, ratio)
        /\ Len(index) = Cardinality(ClassesOf(X))
        /\ Range(index) = ClassesOf(X)
        /\ \A l \in ClassesOf(X) : cts[l] = CountIn(X, l)
        /\ \A i, j \in DOMAIN index : i < j => CountIn(X, index[i]) <= CountIn(X, index[j])
        /\ CountIn(X, index[1]) = MinCount(X)
        /\ CountIn(X, index[Len(index)]) = MaxCount(X)

(* the quotient equals the ratio exactly and no balancing is asked for *)
C10_Witness ==
    /\ pc = "constructed"
    /\ err = "none"
    /\ ratio.type = "float"
    /\ MinCount(X) < MaxCount(X)
    /\ MinCount(X) * ratio.den = ratio.num * MaxCount(X)
    /\ ~needs_balancing

----------------------------------------------------------------------------
(* C11: every balance call (oversample, undersample, SMOTE) and every      *)
(* fit / transform call of a power transformer leaves the caller's input   *)
(* frame as it was when the call was made (values, row order, row index),  *)
(* whether the call succeeds or raises: the index reset, the shift and the *)
(* transformed columns are written to a private copy.                      *)
C11_NoInputMutation ==
    kind \in Kinds \cup TKinds => caller = arg

(* a Box-Cox fit that shifted a column of its working copy, and a balance  *)
(* call that reset the index of its working copy, have returned            *)
C11_Witness ==
    \/ /\ kind = "boxcox"
       /\ op = "fit"
       /\ terr = "none"
       /\ \E nm \in DOMAIN self.shift_.map : self.shift_.map[nm] # R0
       /\ caller = arg
    \/ /\ kind = "over"
       /\ pc = "done"
       /\ err = "none"
       /\ arg.index # arange(Len(X))
       /\ caller = arg

----------------------------------------------------------------------------
(* C12: when balancing is needed and no minority class has a single row,   *)
(* SMOTEClassBalancer.balance returns all the original rows plus, for each *)
(* class below the ratio, exactly n_required - count[label] synthetic rows *)
(* of that label, n_required = max(1, floor(ratio * count[majority])), so  *)
(* that the class ends with n_required rows; the majority and the classes  *)
(* already at the ratio keep their counts.                                 *)
C12_SmoteReachesTarget ==
    (pc = "done" /\ kind = "smote" /\ ValidInput /\ Imbalanced(X, ratio)
        /\ Singletons(X) = {}) =>
        /\ err = "none"
        /\ \A p \in 0..(Len(X) - 1) : Count(out, p) = 1
        /\ \A l \in ClassesOf(X) \cup ClassesOf(balanced) :
              CountIn(balanced, l) =
                  IF Deficient(X, l, ratio)
                  THEN Max2(1, FloorMul(ratio, MaxCount(X)))
                  ELSE CountIn(X, l)

----------------------------------------------------------------------------
(* the call _yj_trans_single_x(arg.x, arg.lam) has returned *)
YjSingleDone == kind = "yj_single" /\ op = "_yj_trans_single_x"

----------------------------------------------------------------------------
(* the columns the transformer works on *)
ColsOf(t) == Range(t.cols_.names)

(* C14: in BoxCoxTransformer.transform, once the stored shift is added,    *)
(* every value that is still <= 0 is replaced by 1e-6 before the power /   *)
(* log transform, so that the transform is never evaluated on a value that *)
(* is not positive.                                                        *)
C14_TransformClamp ==
    (kind = "boxcox" /\ op = "transform" /\ terr = "none") =>
        \A nm \in ColsOf(self) : \A i \in 1..Len(arg[nm]) :
            LET v == Plus(arg[nm][i], self.shift_.map[nm])
            IN  /\ Lt(R0, result.data[nm][i].x)
                /\ result.data[nm][i].x = IF Le(v, R0) THEN LowValue ELSE v

----------------------------------------------------------------------------
----------------------------------------------------------------------------
(* a fit call on a frame of fewer than 2 rows has returned *)
SmallFitDone == kind \in TKinds /\ op = "fit" /\ X_shape0(arg) < 2

(* C16: fit of the Box-Cox and of the Yeo-Johnson transformer fails with   *)
(* the input-size error whenever the frame has fewer than 2 rows; such a   *)
(* call creates no lambda map and no shift map, and a transform on an      *)
(* instance that has no such map fails as not fitted.                      *)
C16_MinimumSampleSize ==
    /\ [](SmallFitDone => terr = "n_samples")
    /\ []((kind \in TKinds /\ op = "transform" /\ ~self.lambda_.set) =>
             terr = "NotFittedError")
    /\ [][((BoxCoxFit \/ YeoJohnsonFit) /\ X_shape0(arg') < 2) =>
             (terr' # "none" /\ self'.lambda_ = self.lambda_
                /\ self'.shift_ = self.shift_)]_vars

(* the part of C16 that holds: a fit on fewer than 2 rows by an instance   *)
(* whose cols_ is not a pandas Index raises the input-size error and       *)
(* leaves both maps as they were                                           *)
C16_MinimumSampleSizeNoIndex ==
    /\ []((kind \in TKinds /\ op = "transform" /\ ~self.lambda_.set) =>
             terr = "NotFittedError")
    /\ [][((BoxCoxFit \/ YeoJohnsonFit) /\ X_shape0(arg') < 2
             /\ self.cols_.type # "Index") =>
             (terr' = "n_samples" /\ self'.lambda_ = self.lambda_
                /\ self'.shift_ = self.shift_)]_vars

----------------------------------------------------------------------------
(* C17: for every strictly positive value _transform_y returns log(value)  *)
(* when |lambda| <= 1e-16 and (value^lambda - 1) / lambda when             *)
(* |lambda| > 1e-16; it never divides by a lambda with |lambda| <= 1e-16.  *)
C17_BoxCoxSingularity ==
    (kind = "bc_single" /\ op = "_transform_y") =>
        /\ Len(result.data) = Len(arg.y)
        /\ \A i \in 1..Len(arg.y) :
              LET r == result.data[i]
              IN  /\ Lt(R0, arg.y[i]) =>
                        /\ r.x = arg.y[i]
                        /\ Le(np_abs(arg.lam), ZERO) => r.f = "log"
                        /\ Lt(ZERO, np_abs(arg.lam)) =>
                              r.f = "power" /\ r.lam = arg.lam /\ r.den = arg.lam
                  /\ r.f = "power" => Lt(ZERO, np_abs(r.den))

(* positive values were transformed with a lambda of exactly 1e-16, and    *)
(* the log branch was taken                                                *)
C17_Witness ==
    /\ kind = "bc_single"
    /\ op = "_transform_y"
    /\ arg.lam = ZERO
    /\ Len(arg.y) > 0
    /\ \A i \in 1..Len(arg.y) : Lt(R0, arg.y[i]) /\ result.data[i].f = "log"

----------------------------------------------------------------------------
(* C18: the shift by |min| + 1 in _yj_llf is local to one evaluation: when *)
(* _yj_llf(data, lmb) returns, the data vector passed in is as it was, so  *)
(* every evaluation of the optimizer sees the original data and returns    *)
(* what a first evaluation with the same lmb returns.                      *)
C18_ShiftDoesNotPersist ==
    (kind = "yj_llf" /\ op = "_yj_llf") =>
        /\ caller = arg
        /\ caller = ctor
        /\ result.format = "llf" => result = _yj_llf(<<ctor>>, 1, result.lmb).ret

----------------------------------------------------------------------------
(* C19: _yj_llf raises the input-size error when the data vector is empty, *)
(* and returns nan, without raising, when the variance of the transformed  *)
(* vector is exactly zero, which is when all data values are identical;    *)
(* otherwise it returns a likelihood.                                      *)
C19_LlfDegenerate ==
    (kind = "yj_llf" /\ op = "_yj_llf") =>
        /\ Len(arg) = 0 => terr = "data is empty" /\ result = NoResult
        /\ Len(arg) > 0 =>
              /\ terr = "none"
              /\ result.format \in {"nan", "llf"}
              /\ result.format = "nan" <=>
                      \A i, j \in 1..Len(arg) : arg[i] = arg[j]

(* an evaluation on two identical values has returned nan *)
C19_Witness ==
    /\ kind = "yj_llf"
    /\ op = "_yj_llf"
    /\ Len(arg) = 2
    /\ arg[1] = arg[2]
    /\ terr = "none"
    /\ result.format = "nan"

----------------------------------------------------------------------------
(* C20: a fit call on a Box-Cox or Yeo-Johnson transformer changes nothing *)
(* of the instance but the lambda map (and, for Box-Cox, the shift map):   *)
(* cols_, n_jobs and as_df are after fit what they were before, whether or *)
(* not a column list was given at construction.                            *)
C20_FitFrameCondition ==
    [][(BoxCoxFit \/ YeoJohnsonFit) =>
          /\ self'.cols_ = self.cols_
          /\ self'.n_jobs = self.n_jobs
          /\ self'.as_df = self.as_df
          /\ kind = "yeojohnson" => self'.shift_ = self.shift_]_vars

(* the part of C20 that holds: fit leaves n_jobs and as_df alone, and      *)
(* leaves cols_ alone when cols_ is a non-empty list                       *)
C20_FitFrameConditionListCols ==
    [][(BoxCoxFit \/ YeoJohnsonFit) =>
          /\ self.cols_.type = "list" => self'.cols_ = self.cols_
          /\ self'.n_jobs = self.n_jobs
          /\ self'.as_df = self.as_df
          /\ kind = "yeojohnson" => self'.shift_ = self.shift_]_vars

----------------------------------------------------------------------------
(* C21: the per-feature estimation tasks of fit share no mutable state:    *)
(* each works on an array of its own and leaves the columns of the frame   *)
(* alone, and for every n_jobs and every order in which the tasks run and  *)
(* complete, fit stores for each feature the lambda estimated from that    *)
(* feature's own column, which is what n_jobs = 1 stores.                  *)
C21_PerFeatureIndependence ==
    kind \in TaskKinds =>
        LET names == self.cols_.names
            k == Len(names)
            col(i) == IF kind = "boxcox_tasks"
                      THEN [j \in 1..Len(arg[names[i]]) |->
                               Plus(arg[names[i]][j], self.shift_.map[names[i]])]
                      ELSE arg[names[i]]
        IN  /\ \A i \in 1..k : caller[i] = col(i)
            /\ \A i, j \in 1..k :
                  (i # j /\ result.tasks[i].phase # "pending"
                         /\ result.tasks[j].phase # "pending") =>
                      /\ result.tasks[i].ref # result.tasks[j].ref
                      /\ result.tasks[i].ref > k
            /\ op = "fit" =>
                  /\ self.lambda_.set
                  /\ DOMAIN self.lambda_.map = Range(names)
                  /\ \A i \in 1..k :
                        self.lambda_.map[names[i]] = estimate(col(i))

(* a fit with n_jobs = 2 whose second task completed before its first, on  *)
(* columns that differ, after an evaluation shifted a task's array         *)
C21_Witness ==
    /\ kind = "yeojohnson_tasks"
    /\ op = "fit"
    /\ self.n_jobs = 2
    /\ result.order = <<2, 1>>
    /\ arg["a"] # arg["b"]
    /\ \E i \in 1..2 : caller[result.tasks[i].ref] # result.tasks[i].y0

----------------------------------------------------------------------------
(* a transform call has returned *)
TransformDone == kind \in TKinds /\ op = "transform"

C23_UndersampleDrawGuard ==
    UnderDone =>
        LET n_required == FloorDiv(NextMostCount(X), ratio)
        IN IF Imbalanced(X, ratio) /\ MaxCount(X) > n_required
           THEN /\ Len(sample_indices) = n_required
                /\ 1 <= n_required
                /\ n_required < MaxCount(X)
                /\ Cardinality(Range(sample_indices)) = n_required
                /\ \A p \in Range(sample_indices) : X[p + 1] \in Majorities(X)
           ELSE sample_indices = <<>>

(* a draw of more rows than the next most populous class has *)
C23_Witness ==
    /\ UnderDone
    /\ Len(sample_indices) > NextMostCount(X)
    /\ Len(sample_indices) + 1 < MaxCount(X)
    /\ ratio.num < ratio.den

(* the errors raised by _validate_x_y_ratio *)
ValidationErrors ==
    {"invalid_ratio", "invalid_target", "KeyError", "too_many_classes", "too_few_classes"}

(* a rejected ratio, a bad label column, or too many or too few classes *)
ValidationFails ==
    \/ ratio.type # "nan" /\ ~RatioInRange(ratio)
    \/ y # "A"
    \/ Cardinality(ClassesOf(X)) < 2
    \/ Cardinality(ClassesOf(X)) > 20

NothingSampled ==
    out = <<>> /\ sample_indices = <<>> /\ balanced = <<>> /\ warned = {}

(* C24: a partitioner is constructed, validated, and only then computes    *)
(* indices. When validation fails, balance ends with the error of          *)
(* validation, there is no partitioner (no counts, no label order), nothing *)
(* was drawn and there is no index set and no output frame. The indices are *)
(* computed only from a partitioner whose validation succeeded, and with    *)
(* the counts captured at validation, which are the counts of the frame.    *)
C24_ValidateBeforeSample ==
    /\ [](kind \in {"over", "under"} =>
            /\ pc = "start" => (cts = NoCts /\ index = NoIndex /\ NothingSampled)
            /\ pc = "constructed" =>
                  (/\ err = "none" /\ ~ValidationFails /\ NothingSampled
                   /\ \A l \in ClassesOf(X) : cts[l] = CountIn(X, l))
            /\ (pc = "done" /\ ValidationFails) => err \in ValidationErrors
            /\ (pc = "done" /\ err # "none") =>
                  (/\ ValidationFails /\ err \in ValidationErrors
                   /\ cts = NoCts /\ index = NoIndex /\ NothingSampled))
    /\ [][(/\ kind \in {"over", "under"} /\ pc' = "done"
            /\ <<out, sample_indices, balanced>>' # <<out, sample_indices, balanced>>)
           => (/\ pc = "constructed" /\ err = "none" /\ ~ValidationFails
               /\ cts' = cts /\ index' = index /\ X' = X
               /\ \A l \in ClassesOf(X) : cts[l] = CountIn(X, l)
               /\ Range(out') \subseteq 0..(Len(X) - 1))]_vars

(* validation failed on a frame of too many classes: the call is over, *)
(* with the error and nothing else                                     *)
C24_Witness ==
    /\ kind = "under"
    /\ pc = "done"
    /\ err = "too_many_classes"
    /\ RatioInRange(ratio)
    /\ y = "A"
    /\ NothingSampled

(* C25: after oversampling and after undersampling a valid dataset with a  *)
(* ratio in (0,1], every label that was most populous before is still a    *)
(* most-populous label: no class has a strictly larger count; and after    *)
(* undersampling count[next_most] / count_after[majority] >= ratio.        *)
C25_MajorityStaysMajority ==
    /\ (OverDone \/ UnderDone) =>
          \A m \in Majorities(X) : \A l \in ClassesOf(balanced) :
              CountIn(balanced, l) <= CountIn(balanced, m)
    /\ UnderDone =>
          \A m \in Majorities(X) :
              NextMostCount(X) * ratio.den >= ratio.num * CountIn(balanced, m)

(* the single majority was cut down to the count of the next most *)
(* populous class and is now one of several most-populous labels  *)
C25_Witness ==
    /\ UnderDone
    /\ sample_indices # <<>>
    /\ Cardinality(Majorities(X)) = 1
    /\ Cardinality(Majorities(balanced)) > 1
    /\ Majorities(X) \subseteq Majorities(balanced)

====
